---- MODULE Spec2Model ----
(***************************************************************************)
(* bindcraft-nhej: the binder design pipeline of BinderDesigner            *)
(* (core/binder_design.py), the Settings model (core/config.py), the CLI   *)
(* entry that builds Settings (cli/main.py) and the environment and file   *)
(* helpers the pipeline calls (utils/environment.py, utils/file_utils.py). *)
(*                                                                         *)
(* Paths and names are strings, built as the code builds them: f-strings   *)
(* and os.path.join become \o, str(int) becomes ToString.                  *)
(***************************************************************************)
EXTENDS Integers, Sequences, FiniteSets, TLC

VARIABLES
    settings,          \* self.settings: the Settings dataclass (None before construction)
    executor,          \* which run_binder_hallucination is bound to the designer
    fs,                \* files present on disk (set of paths)
    dirs,              \* directories present on disk (set of paths)
    design_paths,      \* self.design_paths
    csv_paths,         \* self.csv_paths
    json_files,        \* the JSON documents on disk, by path
    workers,           \* the designers of concurrent runs (None in a single run)
    trajectory_n,      \* self.trajectory_n
    accepted_designs,  \* self.accepted_designs
    pc,                \* position of the thread of control
    seed,              \* local of run_design_loop
    length,            \* local of run_design_loop
    design_name,       \* local of run_design_loop
    executor_calls,    \* number of calls of run_binder_hallucination so far
    env_checks,        \* number of calls of validate_environment so far
    stdout,            \* the messages printed so far that tell outcomes apart
    summary,           \* the totals printed by the final summary (None before)
    args,              \* arguments of the function under call (function specifications)
    ret                \* its result (Pending before the call)

vars == <<settings, executor, fs, dirs, design_paths, csv_paths, json_files, workers, trajectory_n,
          accepted_designs, pc, seed, length, design_name, executor_calls,
          env_checks, stdout, summary, args, ret>>

loop_vars == <<trajectory_n, accepted_designs, seed, length, design_name,
               executor_calls, env_checks, stdout, summary>>

(***************************************************************************)
(* Bounds of the model.                                                    *)
(***************************************************************************)
MaxQuota == 2      \* number_of_final_designs ranges over -1 .. MaxQuota
MaxLen == 2        \* each entry of lengths ranges over 1 .. MaxLen
MaxSeed == 2       \* seeds range over 0 .. MaxSeed - 1 (the code: 0 .. 999998)

(***************************************************************************)
(* Program constants.                                                      *)
(***************************************************************************)
MaxTrajectories == 1000    \* the safety cutoff of run_design_loop
FirstTrajectory == 1       \* the value trajectory_n is constructed with

None == "None"
Pending == "Pending"

(***************************************************************************)
(* Small helpers standing for Python built-ins.                            *)
(***************************************************************************)
Min(a, b) == IF a <= b THEN a ELSE b
Max(a, b) == IF a >= b THEN a ELSE b

\* os.path.join for two components, neither absolute nor ending in a separator
PathJoin(a, b) == IF a = "" THEN b ELSE a \o "/" \o b

\* os.path.join(base_path, "Trajectory", "Relaxed")
PathJoin3(a, b, c) == PathJoin(PathJoin(a, b), c)

(***************************************************************************)
(* core/config.py: the Settings dataclass and create_default_settings.     *)
(***************************************************************************)
\* Settings(...): the dataclass constructor stores its arguments as given
Settings(design_path, binder_name, starting_pdb, chains, target_hotspot_residues, lengths, number_of_final_designs) ==
    [design_path |-> design_path,
     binder_name |-> binder_name,
     starting_pdb |-> starting_pdb,
     chains |-> chains,
     target_hotspot_residues |-> target_hotspot_residues,
     lengths |-> lengths,
     number_of_final_designs |-> number_of_final_designs]

\* create_default_settings: passes every argument on to Settings
create_default_settings(design_path, binder_name, starting_pdb, chains, target_hotspot_residues, lengths, number_of_final_designs) ==
    Settings(design_path, binder_name, starting_pdb, chains,
             target_hotspot_residues, lengths, number_of_final_designs)

(***************************************************************************)
(* Settings.to_dict / from_dict / save / load.  The fields of a Settings   *)
(* that is saved are Python values, kept with their type; a JSON document  *)
(* keeps strings, numbers and arrays, so that json.dump writes a list and  *)
(* a tuple alike and json.load gives back a list.                          *)
(***************************************************************************)
PyStr(v) == [type |-> "str", value |-> v]
PyInt(v) == [type |-> "int", value |-> v]
PyList(v) == [type |-> "list", value |-> v]
PyTuple(v) == [type |-> "tuple", value |-> v]

\* the Python values of a Settings whose fields have the declared types
PyObject(s) ==
    [design_path |-> PyStr(s.design_path),
     binder_name |-> PyStr(s.binder_name),
     starting_pdb |-> PyStr(s.starting_pdb),
     chains |-> PyStr(s.chains),
     target_hotspot_residues |-> PyStr(s.target_hotspot_residues),
     lengths |-> PyList([i \in DOMAIN s.lengths |-> PyInt(s.lengths[i])]),
     number_of_final_designs |-> PyInt(s.number_of_final_designs)]

\* Settings.to_dict: the dictionary of the seven fields
to_dict(s) ==
    ("design_path" :> s.design_path) @@
    ("binder_name" :> s.binder_name) @@
    ("starting_pdb" :> s.starting_pdb) @@
    ("chains" :> s.chains) @@
    ("target_hotspot_residues" :> s.target_hotspot_residues) @@
    ("lengths" :> s.lengths) @@
    ("number_of_final_designs" :> s.number_of_final_designs)

\* from_dict with a fault seeded: binder_name is read from the design_path entry
from_dict_SwappedNames(data) ==
    Settings(data["design_path"], data["design_path"], data["starting_pdb"],
             data["chains"], data["target_hotspot_residues"], data["lengths"],
             data["number_of_final_designs"])

\* Settings.from_dict: the constructor called with the entries of data
from_dict(data) ==
    Settings(data["design_path"], data["binder_name"], data["starting_pdb"],
             data["chains"], data["target_hotspot_residues"], data["lengths"],
             data["number_of_final_designs"])

\* json.dump of a string or an int
JsonScalar(v) ==
    IF v.type = "str" THEN [kind |-> "string", value |-> v.value]
    ELSE [kind |-> "number", value |-> v.value]

\* json.dump of one value: a list and a tuple both become an array
JsonEncode(v) ==
    IF v.type \in {"list", "tuple"}
    THEN [kind |-> "array", value |-> [i \in DOMAIN v.value |-> JsonScalar(v.value[i])]]
    ELSE JsonScalar(v)

\* json.load of a string or a number
PyScalar(j) ==
    IF j.kind = "string" THEN PyStr(j.value) ELSE PyInt(j.value)

\* json.load of one value: an array becomes a list
JsonDecode(j) ==
    IF j.kind = "array"
    THEN PyList([i \in DOMAIN j.value |-> PyScalar(j.value[i])])
    ELSE PyScalar(j)

\* json.dump(self.to_dict(), f, indent=4): the document written by save
json_dump(d) == [k \in DOMAIN d |-> JsonEncode(d[k])]

\* json.load(f): the dictionary read by load
json_load(document) == [k \in DOMAIN document |-> JsonDecode(document[k])]

(***************************************************************************)
(* core/binder_design.py: naming, workspace layout, duplicate check.       *)
(***************************************************************************)
\* generate_design_name with a fault seeded: the length is left out of the name
generate_design_name_NoLength(binder_name, len, sd) ==
    binder_name \o "_s" \o ToString(sd)

\* f"{self.settings.binder_name}_l{length}_s{seed}"
generate_design_name(binder_name, len, sd) ==
    binder_name \o "_l" \o ToString(len) \o "_s" \o ToString(sd)

\* the keys of self.design_paths after setup_directories
DesignPathKeys ==
    {"base", "Trajectory", "Trajectory/Relaxed", "Trajectory/LowConfidence",
     "Trajectory/Clashing", "Trajectory/Animation", "Trajectory/Plots",
     "MPNN", "MPNN/Relaxed", "MPNN/Binder",
     "Accepted", "Accepted/Ranked", "Accepted/Animation", "Accepted/Plots",
     "Rejected"}

\* the dictionary setup_directories builds from base_path
MakeDesignPaths(base_path) ==
    ("base" :> base_path) @@
    ("Trajectory" :> PathJoin(base_path, "Trajectory")) @@
    ("Trajectory/Relaxed" :> PathJoin3(base_path, "Trajectory", "Relaxed")) @@
    ("Trajectory/LowConfidence" :> PathJoin3(base_path, "Trajectory", "LowConfidence")) @@
    ("Trajectory/Clashing" :> PathJoin3(base_path, "Trajectory", "Clashing")) @@
    ("Trajectory/Animation" :> PathJoin3(base_path, "Trajectory", "Animation")) @@
    ("Trajectory/Plots" :> PathJoin3(base_path, "Trajectory", "Plots")) @@
    ("MPNN" :> PathJoin(base_path, "MPNN")) @@
    ("MPNN/Relaxed" :> PathJoin3(base_path, "MPNN", "Relaxed")) @@
    ("MPNN/Binder" :> PathJoin3(base_path, "MPNN", "Binder")) @@
    ("Accepted" :> PathJoin(base_path, "Accepted")) @@
    ("Accepted/Ranked" :> PathJoin3(base_path, "Accepted", "Ranked")) @@
    ("Accepted/Animation" :> PathJoin3(base_path, "Accepted", "Animation")) @@
    ("Accepted/Plots" :> PathJoin3(base_path, "Accepted", "Plots")) @@
    ("Rejected" :> PathJoin(base_path, "Rejected"))

\* the dictionary setup_dataframes builds from base_path
MakeCsvPaths(base_path) ==
    ("trajectory" :> PathJoin(base_path, "trajectory_stats.csv")) @@
    ("mpnn" :> PathJoin(base_path, "mpnn_design_stats.csv")) @@
    ("final" :> PathJoin(base_path, "final_design_stats.csv")) @@
    ("failure" :> PathJoin(base_path, "failure_stats.csv"))

\* the empty dictionary __init__ gives design_paths and csv_paths
EmptyDict == [k \in {} |-> ""]

\* trajectory_dirs with a fault seeded: the scan also covers the Accepted category
trajectory_dirs_with_accepted ==
    {"Trajectory", "Trajectory/Relaxed", "Trajectory/LowConfidence", "Trajectory/Clashing",
     "Accepted"}

\* the list check_trajectory_exists scans
trajectory_dirs ==
    {"Trajectory", "Trajectory/Relaxed", "Trajectory/LowConfidence", "Trajectory/Clashing"}

\* os.path.exists: a file or a directory of that path is on disk
PathExists(files, directories, path) == path \in files \/ path \in directories

\* check_trajectory_exists(design_name) with self.design_paths = paths
check_trajectory_exists(paths, files, directories, name) ==
    \E trajectory_dir \in trajectory_dirs :
        PathExists(files, directories, PathJoin(paths[trajectory_dir], name \o ".pdb"))

\* check_file_exists: os.path.exists(filepath) and os.path.isfile(filepath)
check_file_exists(files, directories, filepath) ==
    PathExists(files, directories, filepath) /\ filepath \in files

(***************************************************************************)
(* utils/environment.py and BinderDesigner.validate_environment.           *)
(***************************************************************************)
\* the tool paths an AdvancedSettings may carry ("" is the default: not set)
ToolPaths == {"functions/dssp", "functions/DAlphaBall.gcc"}

\* validate_required_tools(tools): every tool exists and is executable
validate_required_tools(tools, present, executable) ==
    LET missing_tools == {tool \in tools : ~(tool \in present /\ tool \in executable)}
    IN  missing_tools = {}

\* check_jax_gpu: TRUE when it returns, FALSE when the import of jax fails and
\* it ends the process with sys.exit(1)
check_jax_gpu(jax_installed) == jax_installed

\* validate_environment, once check_jax_gpu has returned
validate_environment(files, directories, starting_pdb, dssp_path, dalphaball_path, present, executable) ==
    LET required_tools == {tool \in {dssp_path, dalphaball_path} : tool /= ""}
    IN  IF ~check_file_exists(files, directories, starting_pdb) THEN FALSE
        ELSE IF required_tools /= {}
             THEN validate_required_tools(required_tools, present, executable)
        ELSE TRUE

(***************************************************************************)
(* The Trajectory Executor, run_binder_hallucination.  The method in the   *)
(* repository is a placeholder that always reports success with an empty   *)
(* "terminate"; the loop only reads "success" of what it returns.  The     *)
(* other executors stand for the function the placeholder is to be         *)
(* replaced with: one that fails every trajectory, one that may return any *)
(* verdict.                                                                *)
(***************************************************************************)
Executors == {"placeholder", "failing", "any"}

TerminateReasons == {"", "clashing"}

TrajectoryResult(name, success, terminate) ==
    [design_name |-> name, success |-> success,
     sequence |-> "PLACEHOLDER_SEQUENCE", terminate |-> terminate]

\* the results a call of run_binder_hallucination may return
run_binder_hallucination(kind, name, len, sd) ==
    CASE kind = "placeholder" -> {TrajectoryResult(name, TRUE, "")}
      [] kind = "writing" -> {TrajectoryResult(name, TRUE, "")}
      [] kind = "failing" -> {TrajectoryResult(name, FALSE, t) : t \in TerminateReasons}
      [] OTHER -> {TrajectoryResult(name, s, t) : s \in BOOLEAN, t \in TerminateReasons}

\* the artifacts a call leaves in the workspace: the placeholder writes
\* nothing; an executor put in its place writes name.pdb where
\* check_trajectory_exists looks for it
ArtifactsWritten(kind, base_path, name) ==
    IF kind = "writing"
    THEN {PathJoin(PathJoin(base_path, "Trajectory"), name \o ".pdb")}
    ELSE {}

(***************************************************************************)
(* run_design_loop, piece by piece.                                        *)
(***************************************************************************)
\* np.random.randint(0, high=999999): the seeds the loop can draw
Seeds == 0 .. (MaxSeed - 1)

\* np.arange(min(lengths), max(lengths) + 1): the lengths the loop can draw
samples(lengths) == Min(lengths[1], lengths[2]) .. Max(lengths[1], lengths[2])

\* the while condition with a fault seeded: the test lets one more iteration in
LoopCondition_Inclusive(accepted, quota) == accepted <= quota

\* the while condition
LoopCondition(accepted, quota) == accepted < quota

\* lines 179-187: the accepted counter after a trajectory result
Classify(accepted, result) ==
    IF result.success THEN accepted + 1 ELSE accepted

\* line 192: the safety check
LimitReached(n) == n > MaxTrajectories

(***************************************************************************)
(* The pipeline as a state machine.  pc:                                   *)
(*   "start"    BinderDesigner constructed, run_full_pipeline not begun    *)
(*   "setup"    validate_environment returned True                         *)
(*   "loop"     at the while test of run_design_loop                       *)
(*   "check"    a name is drawn, check_trajectory_exists is next           *)
(*   "execute"  the name is new, run_binder_hallucination is next          *)
(*   "summary"  run_design_loop has returned                               *)
(*   "done"     run_full_pipeline has printed the summary and returned     *)
(*   "aborted"  run_full_pipeline returned on a failed validation          *)
(*   "exited"   sys.exit(1) in check_jax_gpu                               *)
(***************************************************************************)
Range(f) == {f[k] : k \in DOMAIN f}

\* ValidateEnvironment with a fault seeded: the directories are set up before
\* the environment is validated
ValidateEnvironment_SetupFirst ==
    /\ pc = "start"
    /\ \E jax_installed \in BOOLEAN,
          dssp_path \in {"", "functions/dssp"},
          dalphaball_path \in {"", "functions/DAlphaBall.gcc"},
          present \in SUBSET ToolPaths,
          executable \in SUBSET ToolPaths :
            IF ~check_jax_gpu(jax_installed)
            THEN /\ pc' = "exited"
                 /\ stdout' = stdout \cup {"JAX not installed or not available"}
            ELSE IF validate_environment(fs, dirs, settings.starting_pdb,
                                         dssp_path, dalphaball_path, present, executable)
            THEN /\ pc' = "setup"
                 /\ stdout' = stdout
            ELSE /\ pc' = "aborted"
                 /\ stdout' = stdout \cup {"Environment validation failed. Exiting."}
    /\ env_checks' = env_checks + 1
    /\ design_paths' = MakeDesignPaths(settings.design_path)
    /\ dirs' = dirs \cup Range(design_paths')
    /\ UNCHANGED <<settings, executor, fs, csv_paths, json_files, workers,
                   trajectory_n, accepted_designs, seed, length, design_name,
                   executor_calls, summary, args, ret>>

\* run_full_pipeline up to the validation: lines 198-205
ValidateEnvironment ==
    /\ pc = "start"
    /\ \E jax_installed \in BOOLEAN,
          dssp_path \in {"", "functions/dssp"},
          dalphaball_path \in {"", "functions/DAlphaBall.gcc"},
          present \in SUBSET ToolPaths,
          executable \in SUBSET ToolPaths :
            IF ~check_jax_gpu(jax_installed)
            THEN /\ pc' = "exited"
                 /\ stdout' = stdout \cup {"JAX not installed or not available"}
            ELSE IF validate_environment(fs, dirs, settings.starting_pdb,
                                         dssp_path, dalphaball_path, present, executable)
            THEN /\ pc' = "setup"
                 /\ stdout' = stdout
            ELSE /\ pc' = "aborted"
                 /\ stdout' = stdout \cup {"Environment validation failed. Exiting."}
    /\ env_checks' = env_checks + 1
    /\ UNCHANGED <<settings, executor, fs, dirs, design_paths, csv_paths, json_files, workers,
                   trajectory_n, accepted_designs, seed, length, design_name,
                   executor_calls, summary, args, ret>>

\* the settings file run_full_pipeline saves
SettingsFile(s) == PathJoin(s.design_path, s.binder_name \o ".json")

\* run_full_pipeline lines 207-214: setup_directories, setup_dataframes, save
SetupWorkspace ==
    /\ pc = "setup"
    /\ design_paths' = MakeDesignPaths(settings.design_path)
    /\ dirs' = dirs \cup Range(design_paths')
    /\ csv_paths' = MakeCsvPaths(settings.design_path)
    /\ fs' = fs \cup {SettingsFile(settings)}
    /\ json_files' = (SettingsFile(settings) :> json_dump(to_dict(PyObject(settings))))
                      @@ json_files
    /\ pc' = "loop"
    /\ UNCHANGED <<settings, executor, workers, loop_vars, args, ret>>

\* lines 154-166 when the draws are sd and len: the while test holds, the
\* name is derived
SampleDraw(sd, len) ==
    /\ pc = "loop"
    /\ LoopCondition(accepted_designs, settings.number_of_final_designs)
    /\ sd \in Seeds
    /\ len \in samples(settings.lengths)
    /\ seed' = sd
    /\ length' = len
    /\ design_name' = generate_design_name(settings.binder_name, len, sd)
    /\ pc' = "check"
    /\ UNCHANGED <<settings, executor, fs, dirs, design_paths, csv_paths, json_files, workers,
                   trajectory_n, accepted_designs, executor_calls, env_checks,
                   stdout, summary, args, ret>>

\* lines 154-166: one iteration's sampling
Sample == \E sd \in Seeds, len \in 1 .. MaxLen : SampleDraw(sd, len)

\* line 154: the while test fails, run_design_loop returns
LoopExit ==
    /\ pc = "loop"
    /\ ~LoopCondition(accepted_designs, settings.number_of_final_designs)
    /\ pc' = "summary"
    /\ UNCHANGED <<settings, executor, fs, dirs, design_paths, csv_paths, json_files, workers,
                   loop_vars, args, ret>>

\* SkipDuplicate with a fault seeded: the skipped iteration is counted as a
\* trajectory
SkipDuplicate_Counted ==
    /\ pc = "check"
    /\ check_trajectory_exists(design_paths, fs, dirs, design_name)
    /\ stdout' = stdout \cup {"already exists, skipping..."}
    /\ trajectory_n' = trajectory_n + 1
    /\ pc' = "loop"
    /\ seed' = None /\ length' = None /\ design_name' = None
    /\ UNCHANGED <<settings, executor, fs, dirs, design_paths, csv_paths, json_files, workers,
                   accepted_designs, executor_calls, env_checks,
                   summary, args, ret>>

\* lines 169-171: the name exists, continue
SkipDuplicate ==
    /\ pc = "check"
    /\ check_trajectory_exists(design_paths, fs, dirs, design_name)
    /\ stdout' = stdout \cup {"already exists, skipping..."}
    /\ pc' = "loop"
    /\ seed' = None /\ length' = None /\ design_name' = None
    /\ UNCHANGED <<settings, executor, fs, dirs, design_paths, csv_paths, json_files, workers,
                   trajectory_n, accepted_designs, executor_calls, env_checks,
                   summary, args, ret>>

\* lines 169-174: the name is new, the trajectory starts
StartTrajectory ==
    /\ pc = "check"
    /\ ~check_trajectory_exists(design_paths, fs, dirs, design_name)
    /\ pc' = "execute"
    /\ UNCHANGED <<settings, executor, fs, dirs, design_paths, csv_paths, json_files, workers,
                   loop_vars, args, ret>>

\* RunTrajectoryWith with a fault seeded: the trajectory counter moves only
\* on a successful result
RunTrajectoryWith_CountSuccessOnly(trajectory_result) ==
    /\ pc = "execute"
    /\ trajectory_result \in run_binder_hallucination(executor, design_name, length, seed)
    /\ accepted_designs' = Classify(accepted_designs, trajectory_result)
    /\ executor_calls' = executor_calls + 1
    /\ trajectory_n' = IF trajectory_result.success THEN trajectory_n + 1 ELSE trajectory_n
    /\ IF LimitReached(trajectory_n')
       THEN /\ stdout' = stdout \cup {"Maximum trajectory limit reached, stopping..."}
            /\ pc' = "summary"
       ELSE /\ stdout' = stdout
            /\ pc' = "loop"
    /\ seed' = None /\ length' = None /\ design_name' = None
    /\ UNCHANGED <<settings, executor, fs, dirs, design_paths, csv_paths, json_files, workers,
                   env_checks, summary, args, ret>>

\* lines 177-194 when the executor returns trajectory_result: the result is
\* classified and counted, the safety check either breaks or goes back to the
\* while test
RunTrajectoryWith(trajectory_result) ==
    /\ pc = "execute"
    /\ trajectory_result \in run_binder_hallucination(executor, design_name, length, seed)
    /\ accepted_designs' = Classify(accepted_designs, trajectory_result)
    /\ executor_calls' = executor_calls + 1
    /\ trajectory_n' = trajectory_n + 1
    /\ IF LimitReached(trajectory_n')
       THEN /\ stdout' = stdout \cup {"Maximum trajectory limit reached, stopping..."}
            /\ pc' = "summary"
       ELSE /\ stdout' = stdout
            /\ pc' = "loop"
    /\ seed' = None /\ length' = None /\ design_name' = None
    /\ UNCHANGED <<settings, executor, fs, dirs, design_paths, csv_paths, json_files, workers,
                   env_checks, summary, args, ret>>

\* lines 177-194: one trajectory, whatever the executor returns
RunTrajectory ==
    \E trajectory_result \in run_binder_hallucination(executor, design_name, length, seed) :
        RunTrajectoryWith(trajectory_result)

\* run_full_pipeline lines 219-228: the final summary
Summarize ==
    /\ pc = "summary"
    /\ summary' = [total_trajectories |-> trajectory_n,
                   accepted_designs |-> accepted_designs]
    /\ stdout' = stdout \cup {"Design Pipeline Complete"}
    /\ pc' = "done"
    /\ UNCHANGED <<settings, executor, fs, dirs, design_paths, csv_paths, json_files, workers,
                   trajectory_n, accepted_designs, seed, length, design_name,
                   executor_calls, env_checks, args, ret>>

(***************************************************************************)
(* The states a BinderDesigner is constructed in.                          *)
(***************************************************************************)
\* every name the loop can derive within the bounds
AllNames(binder_name) ==
    {generate_design_name(binder_name, len, sd) : len \in 1 .. MaxLen, sd \in Seeds}

\* the artifact name.pdb in the directory of a category
ArtifactPath(base_path, key, name) ==
    PathJoin(MakeDesignPaths(base_path)[key], name \o ".pdb")

\* what an earlier run may have left in the workspace: nothing, one artifact,
\* or an artifact of every name in one directory
InitialArtifacts(base_path, binder_name) ==
    {{}} \cup
    {{ArtifactPath(base_path, key, name)} :
        key \in DesignPathKeys, name \in AllNames(binder_name)} \cup
    {{ArtifactPath(base_path, key, name) : name \in AllNames(binder_name)} :
        key \in DesignPathKeys}

\* the workspaces explored with a replaced executor, whose runs go on to the
\* safety limit: a fresh one, or one holding the artifact of the first name
LongRunArtifacts(base_path, binder_name) ==
    {{}, {ArtifactPath(base_path, "Trajectory", generate_design_name(binder_name, 1, 0))}}

\* the settings of the runs explored
RunSettings ==
    {create_default_settings("out", "b", "target.pdb", "A", "", <<lo, hi>>, quota) :
        lo \in 1 .. MaxLen, hi \in 1 .. MaxLen, quota \in 0 .. MaxQuota}

\* BinderDesigner.__init__
Init ==
    /\ settings \in RunSettings
    /\ executor \in Executors
    /\ \E artifacts \in (IF executor = "placeholder"
                          THEN InitialArtifacts(settings.design_path, settings.binder_name)
                          ELSE LongRunArtifacts(settings.design_path, settings.binder_name)),
          pdb \in SUBSET {settings.starting_pdb} :
          /\ fs = artifacts \cup pdb
          /\ dirs = IF artifacts = {} THEN {}
                    ELSE Range(MakeDesignPaths(settings.design_path))
    /\ design_paths = EmptyDict
    /\ csv_paths = EmptyDict
    /\ json_files = EmptyDict
    /\ workers = None
    /\ trajectory_n = FirstTrajectory
    /\ accepted_designs = 0
    /\ pc = "start"
    /\ seed = None /\ length = None /\ design_name = None
    /\ executor_calls = 0
    /\ env_checks = 0
    /\ stdout = {}
    /\ summary = None
    /\ args = None
    /\ ret = None

Next ==
    \/ ValidateEnvironment
    \/ SetupWorkspace
    \/ Sample
    \/ LoopExit
    \/ SkipDuplicate
    \/ StartTrajectory
    \/ RunTrajectory
    \/ Summarize

Spec == Init /\ [][Next]_vars

(***************************************************************************)
(* The same pipeline under the scheduling the code has: the single thread  *)
(* takes its next step whenever it has one (every call returns), and a     *)
(* draw that stays possible is drawn again and again (the sampler is       *)
(* uniform over its range).                                                *)
(***************************************************************************)
FairSpec ==
    /\ Spec
    /\ WF_vars(Next)
    /\ \A sd \in Seeds, len \in 1 .. MaxLen : SF_vars(SampleDraw(sd, len))

(***************************************************************************)
(* check_trajectory_exists called on its own: a designer whose directories *)
(* are set up, a workspace holding one file name in up to MaxCopies        *)
(* directories, and a design name to look for.                             *)
(***************************************************************************)
MaxCopies == 2

RECURSIVE KeySets(_)
\* the sets of at most n keys of design_paths
KeySets(n) ==
    IF n = 0 THEN {{}}
    ELSE LET smaller == KeySets(n - 1)
         IN  smaller \cup {ks \cup {key} : ks \in smaller, key \in DesignPathKeys}

\* the file names met in a workspace: artifacts and files of other extensions
FileNames(binder_name) ==
    {name \o ext : name \in AllNames(binder_name), ext \in {".pdb", ".fasta", ""}}

GuardInit ==
    /\ settings = create_default_settings("out", "b", "target.pdb", "A", "",
                                          <<1, MaxLen>>, 1)
    /\ executor = "placeholder"
    /\ design_paths = MakeDesignPaths(settings.design_path)
    /\ csv_paths = MakeCsvPaths(settings.design_path)
    /\ json_files = EmptyDict
    /\ workers = None
    /\ dirs = Range(design_paths)
    /\ \E ks \in KeySets(MaxCopies), file_name \in FileNames(settings.binder_name) :
          fs = {PathJoin(design_paths[key], file_name) : key \in ks}
    /\ design_name \in AllNames(settings.binder_name)
    /\ seed = None /\ length = None
    /\ trajectory_n = FirstTrajectory
    /\ accepted_designs = 0
    /\ executor_calls = 0
    /\ env_checks = 1
    /\ stdout = {}
    /\ summary = None
    /\ pc = "guard"
    /\ args = None
    /\ ret = Pending

\* one call of check_trajectory_exists(design_name)
CallCheckTrajectoryExists ==
    /\ pc = "guard"
    /\ ret' = check_trajectory_exists(design_paths, fs, dirs, design_name)
    /\ pc' = "returned"
    /\ UNCHANGED <<settings, executor, fs, dirs, design_paths, csv_paths, json_files, workers,
                   loop_vars, args>>

GuardNext == CallCheckTrajectoryExists

SpecGuard == GuardInit /\ [][GuardNext]_vars

(***************************************************************************)
(* Settings creation: create_default_settings called directly, and the     *)
(* design command of the CLI called without --config.                      *)
(***************************************************************************)
\* the requests explored: args of create_default_settings / options of design
Requests ==
    [design_path : {"", "out"},
     binder_name : {"", "b"},
     starting_pdb : {"", "target.pdb"},
     chains : {"A"},
     target_hotspot_residues : {""},
     lengths : (1 .. MaxLen) \X (1 .. MaxLen),
     number_of_final_designs : -1 .. MaxQuota]

\* a call that returned value, or raised the exception named
Returned(value) == [raised |-> None, value |-> value]

SettingsInit ==
    /\ args \in Requests
    /\ ret = Pending
    /\ pc = "request"
    /\ settings = None
    /\ executor = "placeholder"
    /\ fs = {}
    /\ dirs = {}
    /\ design_paths = EmptyDict
    /\ csv_paths = EmptyDict
    /\ json_files = EmptyDict
    /\ workers = None
    /\ trajectory_n = FirstTrajectory
    /\ accepted_designs = 0
    /\ seed = None /\ length = None /\ design_name = None
    /\ executor_calls = 0
    /\ env_checks = 0
    /\ stdout = {}
    /\ summary = None

\* create_default_settings(**args), called directly
CallCreateDefaultSettings ==
    /\ pc = "request"
    /\ ret' = Returned(create_default_settings(
                  args.design_path, args.binder_name, args.starting_pdb, args.chains,
                  args.target_hotspot_residues, args.lengths,
                  args.number_of_final_designs))
    /\ pc' = "returned"
    /\ UNCHANGED <<settings, executor, fs, dirs, design_paths, csv_paths, json_files, workers,
                   loop_vars, args>>

\* cli design without --config, lines 49-76: the missing-option check, then
\* create_default_settings and BinderDesigner(settings); run_full_pipeline is
\* the next statement (pc = "start")
CliDesign ==
    /\ pc = "request"
    /\ LET missing == {opt \in {"design_path", "binder_name", "starting_pdb"} :
                          args[opt] = ""}
       IN  IF missing /= {}
           THEN /\ stdout' = stdout \cup {"Error: Missing required options"}
                /\ pc' = "cli_error"
                /\ UNCHANGED settings
           ELSE /\ settings' = create_default_settings(
                        args.design_path, args.binder_name, args.starting_pdb,
                        args.chains, args.target_hotspot_residues, args.lengths,
                        args.number_of_final_designs)
                /\ stdout' = stdout \cup {"Created configuration from command line arguments"}
                /\ pc' = "start"
    /\ UNCHANGED <<executor, fs, dirs, design_paths, csv_paths, json_files, workers, trajectory_n,
                   accepted_designs, seed, length, design_name, executor_calls,
                   env_checks, summary, args, ret>>

SettingsNext ==
    \/ CallCreateDefaultSettings
    \/ CliDesign

SpecSettings == SettingsInit /\ [][SettingsNext]_vars

(***************************************************************************)
(* Settings.save followed by Settings.load, config.py lines 47-57, on      *)
(* Settings objects whose lengths field holds a list or a tuple.           *)
(***************************************************************************)
\* a sequence of ints as Python values
PyInts(seq) == [i \in DOMAIN seq |-> PyInt(seq[i])]

\* the Settings objects saved
SavedSettings ==
    [design_path : {PyStr(""), PyStr("out")},
     binder_name : {PyStr(""), PyStr("b")},
     starting_pdb : {PyStr("target.pdb")},
     chains : {PyStr("A"), PyStr("A,B")},
     target_hotspot_residues : {PyStr(""), PyStr("1-10")},
     lengths : {PyList(PyInts(l)) : l \in (1 .. MaxLen) \X (1 .. MaxLen)}
               \cup {PyTuple(PyInts(l)) : l \in (1 .. MaxLen) \X (1 .. MaxLen)},
     number_of_final_designs : {PyInt(n) : n \in -1 .. MaxQuota}]

RoundTripInit ==
    /\ args \in [self : SavedSettings, filepath : {"settings.json", "out/settings.json"}]
    /\ ret = Pending
    /\ pc = "save"
    /\ settings = None
    /\ executor = "placeholder"
    /\ fs = {}
    /\ dirs = {"out"}
    /\ design_paths = EmptyDict
    /\ csv_paths = EmptyDict
    /\ json_files = EmptyDict
    /\ workers = None
    /\ trajectory_n = FirstTrajectory
    /\ accepted_designs = 0
    /\ seed = None /\ length = None /\ design_name = None
    /\ executor_calls = 0
    /\ env_checks = 0
    /\ stdout = {}
    /\ summary = None

\* args.self.save(args.filepath), lines 47-50
CallSave ==
    /\ pc = "save"
    /\ json_files' = (args.filepath :> json_dump(to_dict(args.self))) @@ json_files
    /\ fs' = fs \cup {args.filepath}
    /\ pc' = "saved"
    /\ UNCHANGED <<settings, executor, dirs, design_paths, csv_paths, workers,
                   loop_vars, args, ret>>

\* Settings.load(args.filepath), lines 52-57
CallLoad ==
    /\ pc = "saved"
    /\ args.filepath \in fs
    /\ ret' = Returned(from_dict(json_load(json_files[args.filepath])))
    /\ pc' = "loaded"
    /\ UNCHANGED <<settings, executor, fs, dirs, design_paths, csv_paths, json_files, workers,
                   loop_vars, args>>

RoundTripNext ==
    \/ CallSave
    \/ CallLoad

SpecRoundTrip == RoundTripInit /\ [][RoundTripNext]_vars

(***************************************************************************)
(* generate_design_name called twice with the same binder name and seed,   *)
(* binder_design.py lines 111-113.                                         *)
(***************************************************************************)
\* the largest length named
MaxNameLength == 12

NamerInit ==
    /\ args \in [binder_name : {"", "b", "b_l1"},
                 first_length : 0 .. MaxNameLength,
                 second_length : 0 .. MaxNameLength,
                 seed : 0 .. MaxSeed]
    /\ ret = Pending
    /\ pc = "name"
    /\ settings = None
    /\ executor = "placeholder"
    /\ fs = {}
    /\ dirs = {}
    /\ design_paths = EmptyDict
    /\ csv_paths = EmptyDict
    /\ json_files = EmptyDict
    /\ workers = None
    /\ trajectory_n = FirstTrajectory
    /\ accepted_designs = 0
    /\ seed = None /\ length = None /\ design_name = None
    /\ executor_calls = 0
    /\ env_checks = 0
    /\ stdout = {}
    /\ summary = None

\* generate_design_name(args.first_length, args.seed)
CallGenerateDesignName ==
    /\ pc = "name"
    /\ ret' = <<generate_design_name(args.binder_name, args.first_length, args.seed)>>
    /\ pc' = "named once"
    /\ UNCHANGED <<settings, executor, fs, dirs, design_paths, csv_paths, json_files, workers,
                   loop_vars, args>>

\* generate_design_name(args.second_length, args.seed), on the same designer
CallGenerateDesignNameAgain ==
    /\ pc = "named once"
    /\ ret' = Append(ret, generate_design_name(args.binder_name, args.second_length, args.seed))
    /\ pc' = "named"
    /\ UNCHANGED <<settings, executor, fs, dirs, design_paths, csv_paths, json_files, workers,
                   loop_vars, args>>

NamerNext ==
    \/ CallGenerateDesignName
    \/ CallGenerateDesignNameAgain

SpecNamer == NamerInit /\ [][NamerNext]_vars

(***************************************************************************)
(* Two designers running run_design_loop at the same time on one           *)
(* workspace.  Each has its own counters and locals (workers[w]); the      *)
(* settings and the disk are shared.  A step is one of the pieces of       *)
(* run_design_loop, so that the duplicate check of one designer and the    *)
(* executor call of the other interleave as two processes do.              *)
(***************************************************************************)
Workers == {"first", "second"}

\* the fields and locals of a designer at the while test
AtLoop(worker) ==
    [worker EXCEPT !.pc = "loop", !.seed = None, !.length = None, !.design_name = None]

ConcurrentInit ==
    /\ settings \in {s \in RunSettings : s.lengths[1] = 1}
    /\ executor \in {"placeholder", "writing"}
    /\ fs = {}
    /\ design_paths = MakeDesignPaths(settings.design_path)
    /\ dirs = Range(design_paths)
    /\ csv_paths = MakeCsvPaths(settings.design_path)
    /\ json_files = EmptyDict
    /\ workers = [w \in Workers |->
                    [pc |-> "loop", trajectory_n |-> FirstTrajectory, accepted_designs |-> 0,
                     executor_calls |-> 0, seed |-> None, length |-> None,
                     design_name |-> None]]
    /\ trajectory_n = FirstTrajectory
    /\ accepted_designs = 0
    /\ pc = "concurrent"
    /\ seed = None /\ length = None /\ design_name = None
    /\ executor_calls = 0
    /\ env_checks = 0
    /\ stdout = {}
    /\ summary = None
    /\ args = None
    /\ ret = None

\* lines 154-166 in designer w
WorkerSample(w) ==
    /\ workers[w].pc = "loop"
    /\ LoopCondition(workers[w].accepted_designs, settings.number_of_final_designs)
    /\ \E sd \in Seeds, len \in samples(settings.lengths) :
          workers' = [workers EXCEPT ![w] =
                         [@ EXCEPT !.pc = "check", !.seed = sd, !.length = len,
                                   !.design_name =
                                       generate_design_name(settings.binder_name, len, sd)]]
    /\ UNCHANGED <<settings, executor, fs, dirs, design_paths, csv_paths, json_files,
                   loop_vars, pc, args, ret>>

\* line 154 in designer w: the while test fails
WorkerLoopExit(w) ==
    /\ workers[w].pc = "loop"
    /\ ~LoopCondition(workers[w].accepted_designs, settings.number_of_final_designs)
    /\ workers' = [workers EXCEPT ![w].pc = "summary"]
    /\ UNCHANGED <<settings, executor, fs, dirs, design_paths, csv_paths, json_files,
                   loop_vars, pc, args, ret>>

\* lines 169-171 in designer w: the name exists on the shared disk
WorkerSkipDuplicate(w) ==
    /\ workers[w].pc = "check"
    /\ check_trajectory_exists(design_paths, fs, dirs, workers[w].design_name)
    /\ workers' = [workers EXCEPT ![w] = AtLoop(@)]
    /\ stdout' = stdout \cup {"already exists, skipping..."}
    /\ UNCHANGED <<settings, executor, fs, dirs, design_paths, csv_paths, json_files,
                   trajectory_n, accepted_designs, seed, length, design_name,
                   executor_calls, env_checks, summary, pc, args, ret>>

\* WorkerStartTrajectory with a fault seeded: the check and the execution are
\* one critical section per name
WorkerStartTrajectory_Locked(w) ==
    /\ workers[w].pc = "check"
    /\ ~check_trajectory_exists(design_paths, fs, dirs, workers[w].design_name)
    /\ \A other \in Workers \ {w} :
          ~(workers[other].pc = "execute"
            /\ workers[other].design_name = workers[w].design_name)
    /\ workers' = [workers EXCEPT ![w].pc = "execute"]
    /\ UNCHANGED <<settings, executor, fs, dirs, design_paths, csv_paths, json_files,
                   loop_vars, pc, args, ret>>

\* lines 169-174 in designer w: the name is not on the shared disk
WorkerStartTrajectory(w) ==
    /\ workers[w].pc = "check"
    /\ ~check_trajectory_exists(design_paths, fs, dirs, workers[w].design_name)
    /\ workers' = [workers EXCEPT ![w].pc = "execute"]
    /\ UNCHANGED <<settings, executor, fs, dirs, design_paths, csv_paths, json_files,
                   loop_vars, pc, args, ret>>

\* lines 177-194 in designer w
WorkerRunTrajectory(w) ==
    /\ workers[w].pc = "execute"
    /\ \E trajectory_result \in run_binder_hallucination(
              executor, workers[w].design_name, workers[w].length, workers[w].seed) :
          workers' = [workers EXCEPT ![w] =
              [AtLoop(@) EXCEPT
                  !.accepted_designs = Classify(@, trajectory_result),
                  !.executor_calls = @ + 1,
                  !.trajectory_n = @ + 1,
                  !.pc = IF LimitReached(workers[w].trajectory_n + 1)
                         THEN "summary" ELSE "loop"]]
    /\ fs' = fs \cup ArtifactsWritten(executor, settings.design_path, workers[w].design_name)
    /\ UNCHANGED <<settings, executor, dirs, design_paths, csv_paths, json_files,
                   loop_vars, pc, args, ret>>

ConcurrentNext ==
    \E w \in Workers :
        \/ WorkerSample(w)
        \/ WorkerLoopExit(w)
        \/ WorkerSkipDuplicate(w)
        \/ WorkerStartTrajectory(w)
        \/ WorkerRunTrajectory(w)

SpecConcurrent == ConcurrentInit /\ [][ConcurrentNext]_vars

(***************************************************************************)
(* Properties.                                                             *)
(***************************************************************************)
\* the categories the duplicate check is specified over
TerminalCategories ==
    {"Trajectory", "Trajectory/Relaxed", "Trajectory/LowConfidence", "Trajectory/Clashing"}

\* the artifact name.pdb is on disk in the directory of a category
InCategory(key, name) ==
    (settings.design_path \o "/" \o key \o "/" \o name \o ".pdb") \in fs

\* the name has an artifact in a trajectory-terminal category
TerminalArtifactExists(name) == \E key \in TerminalCategories : InCategory(key, name)

Quota == settings.number_of_final_designs

SkipMessage == "already exists, skipping..."
LimitMessage == "Maximum trajectory limit reached, stopping..."

\* C1: with quota >= 1, an executor that always returns Success with an empty
\* terminate and no duplicate name sampled, the run ends with
\* accepted_designs = quota and the summary reports quota trajectories.
C1_AllSuccessReportsQuota ==
    (/\ pc = "done"
     /\ executor = "placeholder"
     /\ Quota >= 1
     /\ SkipMessage \notin stdout)
    => (/\ accepted_designs = Quota
        /\ summary.accepted_designs = Quota
        /\ summary.total_trajectories = Quota)

\* C2: with quota >= 1, an executor that always returns Failure and no
\* duplicate name sampled, the run stops at the safety limit, accepts nothing
\* and the summary reports as many trajectories as the limit.
C2_AllFailureReportsCeiling ==
    (/\ pc = "done"
     /\ executor = "failing"
     /\ Quota >= 1
     /\ SkipMessage \notin stdout)
    => (/\ LimitMessage \in stdout
        /\ accepted_designs < Quota
        /\ summary.accepted_designs = 0
        /\ summary.total_trajectories = MaxTrajectories)

\* C3: with quota = 0 the executor is never called and the summary reports
\* zero trajectories and zero accepted designs.
C3_ZeroQuotaReportsZero ==
    (pc = "done" /\ Quota = 0)
    => (/\ executor_calls = 0
        /\ summary.accepted_designs = 0
        /\ summary.total_trajectories = 0)

\* C4: an iteration whose name has a .pdb artifact in a trajectory-terminal
\* category skips: from the duplicate check control goes back to sampling with
\* the executor not called and both counters unchanged, and the executor is
\* only ever reached with a name that has no such artifact.
C4_DuplicateSkipsUncounted ==
    [][/\ (pc = "check" /\ TerminalArtifactExists(design_name))
           => (/\ pc' = "loop"
               /\ executor_calls' = executor_calls
               /\ trajectory_n' = trajectory_n
               /\ accepted_designs' = accepted_designs)
       /\ (pc' = "execute") => ~TerminalArtifactExists(design_name)'
       /\ (executor_calls' /= executor_calls)
           => (pc = "execute" /\ ~TerminalArtifactExists(design_name))]_vars

\* C4 witness: a duplicate was skipped, and nothing was executed or counted.
C4_Witness ==
    /\ pc = "loop"
    /\ SkipMessage \in stdout
    /\ executor_calls = 0
    /\ trajectory_n = FirstTrajectory
    /\ accepted_designs = 0

\* C5: a trajectory whose result carries a non-empty terminate is not
\* accepted, whatever its success flag; accepted_designs grows only on a
\* result with success and an empty terminate.
C5_TerminateReasonNotAccepted ==
    [][\A result \in run_binder_hallucination(executor, design_name, length, seed) :
          RunTrajectoryWith(result)
          => (/\ (result.terminate /= "") => accepted_designs' = accepted_designs
              /\ (accepted_designs' /= accepted_designs)
                  => (result.success /\ result.terminate = ""))]_vars

\* C6: the end of a run tells quota met from limit hit: a run that ends with
\* accepted_designs >= quota is not reported as having reached the limit, a
\* run that ends below the quota is.
C6_OutcomesDistinguished ==
    (pc = "done")
    => (/\ (accepted_designs >= Quota) => LimitMessage \notin stdout
        /\ (accepted_designs < Quota) => LimitMessage \in stdout)

\* C7: whatever the executor returns and whatever the workspace holds, the
\* run reaches a terminal state.
C7_LoopTerminates == <>(pc \in {"done", "aborted", "exited"})

\* C8: check_trajectory_exists(name) is true exactly when name.pdb is in one
\* of the four trajectory-terminal categories; artifacts of that name in other
\* categories alone leave it false.
C8_ExistsIffTerminalCategory ==
    (pc = "returned")
    => (/\ ret <=> TerminalArtifactExists(design_name)
        /\ ((\A key \in TerminalCategories : ~InCategory(key, design_name))
            /\ (\E key \in DesignPathKeys \ TerminalCategories :
                    key /= "base" /\ InCategory(key, design_name)))
           => (ret = FALSE))

\* C8 witness: the name has artifacts in Accepted and in MPNN only, and the
\* check returned false.
C8_Witness ==
    /\ pc = "returned"
    /\ InCategory("Accepted", design_name)
    /\ InCategory("MPNN", design_name)
    /\ ret = FALSE

\* C9: the environment is validated once, before anything else; when the
\* validation fails the pipeline ends there, having created no directory,
\* written no file, called the executor never and left the counters and the
\* path dictionaries as constructed.
C9_FailedValidationMutatesNothing ==
    [][/\ (env_checks' /= env_checks) => (pc = "start" /\ env_checks = 0 /\ env_checks' = 1)
       /\ (pc /= "start") => env_checks = 1
       /\ (pc' \in {"aborted", "exited"})
           => (/\ pc = "start"
               /\ fs' = fs
               /\ dirs' = dirs
               /\ design_paths' = EmptyDict
               /\ csv_paths' = EmptyDict
               /\ executor_calls' = 0
               /\ trajectory_n' = FirstTrajectory
               /\ accepted_designs' = 0
               /\ summary' = None)
       /\ (pc \in {"aborted", "exited"}) => FALSE]_vars

\* C9 witness: the pipeline returned on a failed validation in a fresh
\* workspace: no directory, no settings file.
C9_Witness ==
    /\ pc = "aborted"
    /\ env_checks = 1
    /\ dirs = {}
    /\ SettingsFile(settings) \notin fs

\* a request the Settings model is specified to reject
InvalidRequest(r) ==
    \/ r.lengths[1] > r.lengths[2]
    \/ r.number_of_final_designs < 1
    \/ r.binder_name = ""
    \/ r.starting_pdb = ""

\* C10: creating settings from an invalid request (min_len > max_len, quota < 1,
\* empty name or empty target) raises InvalidSettings and yields no Settings,
\* and no designer is constructed from such a request.
C10_InvalidSettingsRejected ==
    /\ (pc = "returned" /\ InvalidRequest(args))
        => (ret.raised = "InvalidSettings" /\ ret.value = None)
    /\ (pc = "start") => ~InvalidRequest(args)

\* the keys of the persisted settings record
SettingsRecordKeys ==
    {"design_path", "binder_name", "starting_pdb", "chains",
     "target_hotspot_residues", "lengths", "number_of_final_designs"}

\* the fields hold values of the declared types (lengths: List[int]); every
\* valid settings value is one of these
DeclaredTypes(s) == s.lengths.type = "list"

\* C11: saving a Settings whose fields have their declared types and loading
\* the saved file yields a value equal to it field by field, and the saved
\* record has exactly the seven keys.
C11_SaveLoadRoundTrip ==
    /\ pc \in {"saved", "loaded"} => DOMAIN json_files[args.filepath] = SettingsRecordKeys
    /\ (pc = "loaded" /\ DeclaredTypes(args.self)) =>
            \A k \in SettingsRecordKeys : ret.value[k] = args.self[k]

\* a settings value with distinct names and lengths <<1, 2>> was saved and came back equal
C11_Witness ==
    /\ pc = "loaded"
    /\ args.self.design_path = PyStr("out")
    /\ args.self.binder_name = PyStr("b")
    /\ args.self.lengths = PyList(<<PyInt(1), PyInt(2)>>)
    /\ args.self.number_of_final_designs = PyInt(2)
    /\ ret.value = args.self

\* C12: with the binder name and the seed fixed, two calls of
\* generate_design_name give the identical name when the lengths are identical
\* and different names when the lengths differ.
C12_NameDeterminedByLength ==
    pc = "named" =>
        /\ args.first_length = args.second_length => ret[1] = ret[2]
        /\ args.first_length /= args.second_length => ret[1] /= ret[2]

\* lengths 1 and 12 under binder name "b_l1" were named, and the names differ
C12_Witness ==
    /\ pc = "named"
    /\ args.binder_name = "b_l1"
    /\ args.first_length = 1
    /\ args.second_length = MaxNameLength
    /\ ret[1] = "b_l1_l1_s" \o ToString(args.seed)
    /\ ret[1] /= ret[2]

\* C13: every step that invokes the executor moves trajectory_n up by exactly
\* one whatever the result; after a result without success accepted_designs is
\* unchanged and the loop is back at its while test, which holds, unless the
\* thousandth trajectory was just run.
C13_AttemptCountedFailureRecoverable ==
    [][/\ (executor_calls' /= executor_calls) => trajectory_n' = trajectory_n + 1
       /\ \A result \in run_binder_hallucination(executor, design_name, length, seed) :
            (RunTrajectoryWith(result) /\ ~result.success)
            => /\ accepted_designs' = accepted_designs
               /\ \/ executor_calls' >= MaxTrajectories
                  \/ /\ pc' = "loop"
                     /\ LoopCondition(accepted_designs', settings.number_of_final_designs)]_vars

\* two trajectories failed: both are counted, none is accepted, and the loop
\* is at its while test again
C13_Witness ==
    /\ executor = "failing"
    /\ executor_calls = 2
    /\ trajectory_n = FirstTrajectory + 2
    /\ accepted_designs = 0
    /\ pc = "loop"
    /\ ENABLED Sample

\* C14: every length the loop has sampled lies in the inclusive range from
\* the configured minimum to the configured maximum, it is that one length
\* when the two are equal, and the name handed to the duplicate check and to
\* the executor embeds it.
C14_SampledLengthInRange ==
    pc \in {"check", "execute"}
    => /\ settings.lengths[1] <= length /\ length <= settings.lengths[2]
       /\ settings.lengths[1] = settings.lengths[2] => length = settings.lengths[1]
       /\ design_name = generate_design_name(settings.binder_name, length, seed)

\* designer w has drawn name and stands before its duplicate check
Checking(w, name) == workers[w].pc = "check" /\ workers[w].design_name = name

\* designer w has passed the duplicate check for name and not yet returned
\* from the executor
Executing(w, name) == workers[w].pc = "execute" /\ workers[w].design_name = name

\* C15: the duplicate check and the execution are not one atomic step: while
\* one designer is between its check and the end of its executor call for a
\* name, with no artifact of the name written, another designer that has
\* drawn the same name passes the check too; both then call the executor and
\* count the trajectory.
C15_CheckThenExecuteNotAtomic ==
    \A w \in Workers : \A other \in Workers \ {w} :
        \A name \in AllNames(settings.binder_name) :
            (Executing(other, name) /\ Checking(w, name) /\ ~TerminalArtifactExists(name))
            => /\ ENABLED WorkerStartTrajectory(w)
               /\ ENABLED WorkerRunTrajectory(other)

\* with an executor that writes the artifact, both designers have run and
\* counted the trajectory of one name: both passed the check before either
\* artifact was written
C15_Witness ==
    /\ executor = "writing"
    /\ \A w \in Workers :
          /\ workers[w].pc = "loop"
          /\ workers[w].executor_calls = 1
          /\ workers[w].trajectory_n = FirstTrajectory + 1
    /\ Cardinality(fs) = 1
    /\ TerminalArtifactExists(generate_design_name(settings.binder_name, 1, 0))

\* C16: in every state of a run with quota >= 0, accepted_designs is at most
\* the quota and at most the number of executor calls made so far, the
\* executor is only reached while accepted_designs is below the quota, and it
\* is called at most a thousand times.
C16_AcceptedBoundedByQuotaAndCalls ==
    Quota >= 0
    => /\ accepted_designs <= Quota
       /\ accepted_designs <= executor_calls
       /\ pc = "execute" => accepted_designs < Quota
       /\ executor_calls <= MaxTrajectories

\* a run that ended on its thousandth executor call with that call's result
\* the one that met the quota
C16_Witness ==
    /\ pc = "done"
    /\ executor_calls = MaxTrajectories
    /\ Quota >= 1
    /\ accepted_designs = Quota

====
